---- MODULE Spec2Model ----
(***************************************************************************)
(* A model of two components of the SVSM guest kernel:                     *)
(*   - the page-table manager of src/src/pagetable.rs (walk, split of a    *)
(*     2 MiB mapping, toggling of the confidentiality bit), and            *)
(*   - the #HV doorbell of src/kernel/src/sev/hv_doorbell.rs               *)
(*     (process_pending_events, no_eoi_required, and the life of an        *)
(*     HVDoorbellPage: new, leak, drop).                                   *)
(*                                                                         *)
(* A 64-bit word (u64 / usize) is the set of its one-bits, a subset of     *)
(* 0..63: TLC's integers are 32 bits wide, the page-table entries are not. *)
(* and is intersection, or is union, not is the complement in 0..63.       *)
(***************************************************************************)
EXTENDS Integers, Sequences, FiniteSets, TLC

VARIABLES
    mem,        \* page address |-> PTPage (512 entries), every page-table page
    next_free,  \* number of frames the allocator has handed out
    pre,        \* mem as it was when the last operation was entered
    last        \* the record of the last operation (OpRecord)

\* The #HV doorbell page and the guest running process_pending_events
VARIABLES
    db_vector,      \* HVDoorbell.vector, the pending-vector byte
    db_flags,       \* HVDoorbell.flags, a byte as the set of its one-bits
    hv_signal,      \* a #HV signal is latched and not yet delivered
    gpc,            \* where the guest is in process_pending_events
    prior,          \* the local `flags`: what fetch_and returned
    swapped,        \* the local `vector`: what the last swap returned
    dispatched,     \* the vectors this invocation handed to common_isr_handler
    swaps,          \* the swaps (loop iterations) of this invocation
    hpc,            \* where the hypervisor is in posting an event
    start,          \* the two bytes as they were when this invocation began
    hv_wrote        \* the hypervisor wrote to the page since this invocation began

\* The no-EOI-required byte and the callers of no_eoi_required
VARIABLES
    no_eoi,         \* HVDoorbell.no_eoi_required, a byte as the set of its one-bits
    eoi_pc,         \* per caller: where it is in no_eoi_required
    eoi_local,      \* per caller: the local `no_eoi_required`
    eoi_ret,        \* per caller: what its last call returned
    sets,           \* how often bit 0 went from clear to set
    trues           \* how many calls returned true

\* The rest of the doorbell page, which the hypervisor writes
VARIABLES
    per_vmpl_events,    \* HVDoorbell.per_vmpl_events, a byte as the set of its one-bits
    per_vmpl            \* HVDoorbell.per_vmpl: per lower VMPL, the status word

\* The life of an HVDoorbellPage
VARIABLES
    lpc,            \* where the page is in HVDoorbellPage::new, leak and drop
    visibility,     \* "private", or "shared" with the hypervisor
    registered,     \* the hypervisor holds the page as the #HV doorbell
    frame,          \* the backing frame: "free", "allocated", "released"
    new_ret         \* what HVDoorbellPage::new returned: "none", "Ok", "Err"

ptVars == <<mem, next_free, pre, last>>
dbVars == <<db_vector, db_flags, hv_signal, gpc, prior, swapped, dispatched, swaps,
            hpc, start, hv_wrote>>
eoiVars == <<no_eoi, eoi_pc, eoi_local, eoi_ret, sets, trues>>

restVars == <<per_vmpl_events, per_vmpl>>
lifeVars == <<lpc, visibility, registered, frame, new_ret>>

vars == <<ptVars, dbVars, eoiVars, restVars, lifeVars>>

----------------------------------------------------------------------------
(* Words as bit sets *)

WordBits == 0..63

\* 2^n for n in 0..30, for the conversions between small integers and words
Pow2Table ==
    <<1, 2, 4, 8, 16, 32, 64, 128, 256, 512, 1024, 2048, 4096, 8192, 16384,
      32768, 65536, 131072, 262144, 524288, 1048576, 2097152, 4194304,
      8388608, 16777216, 33554432, 67108864, 134217728, 268435456,
      536870912, 1073741824>>

Pow2(n) == Pow2Table[n + 1]

\* the word of a small non-negative integer (n < 2^31)
ToBits(n) == {b \in 0..30 : (n \div Pow2(b)) % 2 = 1}

\* the integer of a word that fits in 31 bits
RECURSIVE BitsToNat(_)
BitsToNat(w) ==
    IF w = {} THEN 0
    ELSE LET b == CHOOSE x \in w : TRUE IN Pow2(b) + BitsToNat(w \ {b})

BitAnd(a, b) == a \cap b
BitOr(a, b) == a \cup b
BitNot(a) == WordBits \ a
ShiftR(w, n) == {b - n : b \in {x \in w : x >= n}}
ShiftL(w, n) == {b + n : b \in {x \in w : x + n <= 63}}

\* a + b on usize: ripple carry from bit i, the carry out of bit 63 is dropped
RECURSIVE AddFrom(_, _, _, _)
AddFrom(a, b, i, carry) ==
    IF i > 63 THEN {}
    ELSE LET s == (IF i \in a THEN 1 ELSE 0) + (IF i \in b THEN 1 ELSE 0) + carry
         IN  (IF s % 2 = 1 THEN {i} ELSE {}) \cup AddFrom(a, b, i + 1, s \div 2)

\* words with no one-bit in common add without a carry
WordAdd(a, b) == IF a \cap b = {} THEN a \cup b ELSE AddFrom(a, b, 0, 0)

----------------------------------------------------------------------------
(* pagetable.rs: constants, PTEntryFlags, PTEntry *)

PAGE_SIZE == 4096
ENTRY_COUNT == 512

\* encrypt_mask() is 1 << 51
C_BIT == 51
encrypt_mask == {C_BIT}

strip_c_bit(paddr) == BitAnd(paddr, BitNot(encrypt_mask))

set_c_bit(paddr) == BitOr(paddr, encrypt_mask)

\* PTEntryFlags: the bit of each flag
PRESENT == 0
WRITABLE == 1
USER == 2
ACCESSED == 5
DIRTY == 6
HUGE == 7
GLOBAL == 8
NX == 63

PTEntryFlags == {PRESENT, WRITABLE, USER, ACCESSED, DIRTY, HUGE, GLOBAL, NX}

\* 0x000f_ffff_ffff_f000
ADDR_MASK == 12..51

\* 0x000f_ffff_fff0_0000
ADDR_MASK_2M == 20..51

\* PTEntry::flags: from_bits_truncate drops every bit that is no flag
PTEntry_flags(entry) == BitAnd(entry, PTEntryFlags)

\* PTEntry::address
PTEntry_address(entry) == strip_c_bit(BitAnd(entry, ADDR_MASK))

\* the assertion of PTEntry::set
PTEntry_set_ok(addr) == BitAnd(addr, BitNot(ADDR_MASK)) = {}

\* PTEntry::set: the new value of the entry (when the assertion holds)
PTEntry_set(addr, flags) == BitOr(addr, flags)

----------------------------------------------------------------------------
(* pagetable.rs: PageTable *)

\* the null pointer
NULL == {}

\* PageTable::index::<L>: vaddr >> (12 + L * 9) & 0x1ff
index(L, vaddr) == BitsToNat(BitAnd(ShiftR(vaddr, 12 + L * 9), 0..8))

\* PageTable::entry_to_pagetable: None, or Some(the page at entry.address())
entry_to_pagetable(entry) ==
    LET flags == PTEntry_flags(entry) IN
    IF PRESENT \notin flags \/ HUGE \in flags
    THEN [some |-> FALSE, page |-> NULL]
    ELSE [some |-> TRUE, page |-> PTEntry_address(entry)]

\* A Mapping is [level, page, idx]: Mapping::Level<level>(&mut m[page][idx])
walk_addr_lvl0(m, page, vaddr) ==
    [level |-> 0, page |-> page, idx |-> index(0, vaddr)]

walk_addr_lvl1(m, page, vaddr) ==
    LET idx == index(1, vaddr)
        ret == entry_to_pagetable(m[page][idx])
    IN  IF ret.some THEN walk_addr_lvl0(m, ret.page, vaddr)
        ELSE [level |-> 1, page |-> page, idx |-> idx]

\* a slip in walk_addr_lvl2: the early stop is tagged Level1
walk_addr_lvl2_tag1(m, page, vaddr) ==
    LET idx == index(2, vaddr)
        ret == entry_to_pagetable(m[page][idx])
    IN  IF ret.some THEN walk_addr_lvl1(m, ret.page, vaddr)
        ELSE [level |-> 1, page |-> page, idx |-> idx]

walk_addr_lvl2(m, page, vaddr) ==
    LET idx == index(2, vaddr)
        ret == entry_to_pagetable(m[page][idx])
    IN  IF ret.some THEN walk_addr_lvl1(m, ret.page, vaddr)
        ELSE [level |-> 2, page |-> page, idx |-> idx]

walk_addr_lvl3(m, page, vaddr) ==
    LET idx == index(3, vaddr)
        ret == entry_to_pagetable(m[page][idx])
    IN  IF ret.some THEN walk_addr_lvl2(m, ret.page, vaddr)
        ELSE [level |-> 3, page |-> page, idx |-> idx]

\* the address of PageTable.root
PageAt(n) == ShiftL(ToBits(n), 12)
RootAddr == PageAt(1)

\* PageTable::walk_addr
walk_addr(m, vaddr) == walk_addr_lvl3(m, RootAddr, vaddr)

\* the entry a Mapping refers to
Deref(m, map) == m[map.page][map.idx]

\* i * PAGE_SIZE as a word, for i in 0..511
PageOffset == [i \in 0..(ENTRY_COUNT - 1) |-> ToBits(i * PAGE_SIZE)]

\* a slip in the loop: every sub-entry maps the first 4 KiB of the range
SplitAddr4k_base(addr_2m, i) == WordAdd(addr_2m, ToBits(0 * PAGE_SIZE))

\* addr_4k of do_split_4k's loop
SplitAddr4k(addr_2m, i) == WordAdd(addr_2m, PageOffset[i])

\* the leaf page do_split_4k prepares: entry i is set(set_c_bit(addr_4k), flags)
SplitLeafEntry(addr_2m, flags, i) ==
    PTEntry_set(set_c_bit(SplitAddr4k(addr_2m, i)), flags)

\* the entry do_split_4k installs in place of the huge entry
SplitTableEntry(page, flags) == PTEntry_set(set_c_bit(page), flags)

\* a slip in do_split_4k: the huge entry is rewritten before the null check
do_split_4k_late_check(m, map, page) ==
    LET entry == Deref(m, map)
        flags == PTEntry_flags(entry) \ {HUGE}
    IN  IF HUGE \notin PTEntry_flags(entry)
        THEN [mem |-> m, ret |-> "Panic", events |-> <<"alloc">>]
        ELSE [mem |-> [m EXCEPT ![map.page][map.idx] = SplitTableEntry(page, flags)],
              ret |-> "Err", events |-> <<"alloc", "entry">>]

\* a slip in do_split_4k: the TLB is flushed before the huge entry is replaced
do_split_4k_flush_first(m, map, page) ==
    LET entry == Deref(m, map)
        addr_2m == BitAnd(PTEntry_address(entry), ADDR_MASK_2M)
        flags == PTEntry_flags(entry) \ {HUGE}
        leaf == [i \in 0..(ENTRY_COUNT - 1) |-> SplitLeafEntry(addr_2m, flags, i)]
        withLeaf == [q \in DOMAIN m \cup {page} |-> IF q = page THEN leaf ELSE m[q]]
    IN  IF HUGE \notin PTEntry_flags(entry)
        THEN [mem |-> m, ret |-> "Panic", events |-> <<"alloc">>]
        ELSE IF page = NULL
        THEN [mem |-> m, ret |-> "Err", events |-> <<"alloc">>]
        ELSE [mem |-> [withLeaf EXCEPT ![map.page][map.idx] =
                                            SplitTableEntry(page, flags)],
              ret |-> "Ok",
              events |-> <<"alloc", "leaf", "flush_tlb", "entry">>]

\* PageTable::do_split_4k on the entry `map` refers to; `page` is what
\* allocate_page_table returned.  The result is the memory afterwards, what
\* the call returned ("Ok", "Err", or "Panic" for a failed assertion) and the
\* effects in the order they happened.
do_split_4k(m, map, page) ==
    LET entry == Deref(m, map)
        flags0 == PTEntry_flags(entry)
        addr_2m == BitAnd(PTEntry_address(entry), ADDR_MASK_2M)
        flags == flags0 \ {HUGE}
        leafOk == \A i \in 0..(ENTRY_COUNT - 1) :
                    PTEntry_set_ok(set_c_bit(SplitAddr4k(addr_2m, i)))
        leaf == [i \in 0..(ENTRY_COUNT - 1) |-> SplitLeafEntry(addr_2m, flags, i)]
        withLeaf == [q \in DOMAIN m \cup {page} |-> IF q = page THEN leaf ELSE m[q]]
    IN  IF HUGE \notin flags0
        THEN [mem |-> m, ret |-> "Panic", events |-> <<"alloc">>]
        ELSE IF page = NULL
        THEN [mem |-> m, ret |-> "Err", events |-> <<"alloc">>]
        ELSE IF ~leafOk
        THEN [mem |-> m, ret |-> "Panic", events |-> <<"alloc">>]
        ELSE IF ~PTEntry_set_ok(set_c_bit(page))
        THEN [mem |-> withLeaf, ret |-> "Panic", events |-> <<"alloc", "leaf">>]
        ELSE [mem |-> [withLeaf EXCEPT ![map.page][map.idx] =
                                            SplitTableEntry(page, flags)],
              ret |-> "Ok",
              events |-> <<"alloc", "leaf", "entry", "flush_tlb">>]

\* a slip in split_4k: a level-2 mapping is handed to do_split_4k as well
split_4k_level2(m, map, page) ==
    CASE map.level = 0 -> [mem |-> m, ret |-> "Ok", events |-> <<>>]
      [] map.level = 1 -> do_split_4k(m, map, page)
      [] map.level = 2 -> do_split_4k(m, map, page)
      [] map.level = 3 -> [mem |-> m, ret |-> "Err", events |-> <<>>]

\* PageTable::split_4k
split_4k(m, map, page) ==
    CASE map.level = 0 -> [mem |-> m, ret |-> "Ok", events |-> <<>>]
      [] map.level = 1 -> do_split_4k(m, map, page)
      [] map.level = 2 -> [mem |-> m, ret |-> "Err", events |-> <<>>]
      [] map.level = 3 -> [mem |-> m, ret |-> "Err", events |-> <<>>]

\* a slip in PageTable::clear_c_bit: the address is taken from the entry as it
\* stands, with the confidentiality bit it has
clear_c_bit_unstripped(entry) ==
    LET flags == PTEntry_flags(entry)
        addr == BitAnd(entry, ADDR_MASK)
    IN  PTEntry_set(addr, flags)

\* PageTable::clear_c_bit: the new value of the entry
clear_c_bit(entry) ==
    LET flags == PTEntry_flags(entry)
        addr == PTEntry_address(entry)
    IN  PTEntry_set(addr, flags)

\* a slip in PageTable::set_c_bit: the address is written back as address()
\* returned it, with the confidentiality bit clear
PageTable_set_c_bit_unset(entry) ==
    LET flags == PTEntry_flags(entry)
        addr == PTEntry_address(entry)
    IN  PTEntry_set(addr, flags)

\* PageTable::set_c_bit: the new value of the entry
PageTable_set_c_bit(entry) ==
    LET flags == PTEntry_flags(entry)
        addr == PTEntry_address(entry)
    IN  PTEntry_set(set_c_bit(addr), flags)

\* the common body of set_shared_4k (shared: clear_c_bit) and set_encrypted_4k
\* (PageTable::set_c_bit): walk, split, walk again, toggle.  An Err after a
\* successful split keeps what the split wrote.
Toggle4k(m, vaddr, page, shared) ==
    LET r == split_4k(m, walk_addr(m, vaddr), page) IN
    IF r.ret # "Ok" THEN r
    ELSE LET map == walk_addr(r.mem, vaddr)
             e == Deref(r.mem, map)
             new == IF shared THEN clear_c_bit(e) ELSE PageTable_set_c_bit(e)
         IN  IF map.level = 0
             THEN [r EXCEPT !.mem = [r.mem EXCEPT ![map.page][map.idx] = new],
                            !.events = Append(r.events, "toggle")]
             ELSE [r EXCEPT !.ret = "Err"]

\* PageTable::set_shared_4k
set_shared_4k(m, vaddr, page) == Toggle4k(m, vaddr, page, TRUE)

\* PageTable::set_encrypted_4k
set_encrypted_4k(m, vaddr, page) == Toggle4k(m, vaddr, page, FALSE)

----------------------------------------------------------------------------
(* The page tables the operations start from, the allocator, the inputs *)

\* frames the allocator can hand out before it is exhausted
MaxAlloc == 2

\* the pages of the initial table: the root and one table per lower level
L2Addr == PageAt(2)
L1Addr == PageAt(3)
L0Addr == PageAt(4)

\* the k-th frame the allocator hands out (allocate_page_table, identity mapped)
PoolFrame(k) == PageAt(16 + k)

\* what allocate_page_table can return: null, or the next frame while there is one
AllocOutcomes(nf) == {NULL} \cup (IF nf < MaxAlloc THEN {PoolFrame(nf)} ELSE {})

\* an entry that points at a next-level table
TableEntry(page) == BitOr(set_c_bit(page), {PRESENT, WRITABLE})

\* The initial tables: a 2 MiB huge entry at level 1 and a 4 KiB entry at level 0.
\* The huge entries are encrypted and shared, with flags only and with bits that
\* are neither flag nor address (PWT 3, PAT 12, available 52); the 4 KiB entries
\* are encrypted, shared, with bits that are neither flag nor address (PWT 3,
\* available 9 and 59), and the zero entry.
Scenarios ==
    { [huge |-> {PRESENT, WRITABLE, HUGE, 21},
       leaf |-> {PRESENT, WRITABLE, 12, 13, C_BIT}],
      [huge |-> {PRESENT, WRITABLE, HUGE, 21, C_BIT},
       leaf |-> {PRESENT, USER, 14, 40}],
      [huge |-> {PRESENT, ACCESSED, DIRTY, HUGE, GLOBAL, NX, 3, 12, 52, 22, 33, 50},
       leaf |-> {PRESENT, NX, 3, 9, 59, 15, 50, C_BIT}],
      [huge |-> {PRESENT, ACCESSED, DIRTY, HUGE, GLOBAL, NX, 3, 12, 52, 22, 33, 50, C_BIT},
       leaf |-> {}] }

\* a huge entry that is not present
HugeNotPresent == {WRITABLE, HUGE, 23}

\* a 1 GiB huge entry at level 2
Huge1G == {PRESENT, WRITABLE, HUGE, 30, C_BIT}

ZeroPage == [i \in 0..(ENTRY_COUNT - 1) |-> {}]

InitialTable(huge, leaf) ==
    [q \in {RootAddr, L2Addr, L1Addr, L0Addr} |->
        CASE q = RootAddr -> [ZeroPage EXCEPT ![0] = TableEntry(L2Addr)]
          [] q = L2Addr -> [ZeroPage EXCEPT ![0] = TableEntry(L1Addr),
                                            ![1] = Huge1G]
          [] q = L1Addr -> [ZeroPage EXCEPT ![0] = huge,
                                            ![1] = TableEntry(L0Addr),
                                            ![3] = HugeNotPresent]
          [] q = L0Addr -> [ZeroPage EXCEPT ![0] = leaf]]

\* the virtual address with the given four indices and page offset
VA(i3, i2, i1, i0, off) ==
    BitOr(BitOr(ShiftL(ToBits(i3), 39), ShiftL(ToBits(i2), 30)),
          BitOr(BitOr(ShiftL(ToBits(i1), 21), ShiftL(ToBits(i0), 12)), ToBits(off)))

\* the virtual addresses the operations are called with
VAddrs ==
    { VA(0, 0, 1, 0, 291),                  \* 4 KiB mapping
      VA(0, 0, 0, 7, 16),                   \* inside the 2 MiB huge mapping
      VA(0, 0, 2, 0, 0),                    \* level-1 entry not present
      VA(0, 0, 3, 1, 0),                    \* level-1 entry huge, not present
      VA(0, 1, 3, 4, 0),                    \* inside the 1 GiB huge mapping
      VA(0, 2, 0, 0, 0),                    \* level-2 entry not present
      BitOr(VA(511, 0, 0, 0, 0), 48..63) }  \* level-3 entry not present

NoOp == [op |-> "none", vaddr |-> {}, ret |-> "Ok", events |-> <<>>, page |-> NULL,
         map |-> [level |-> 3, page |-> RootAddr, idx |-> 0], entry |-> {},
         shared_before |-> [some |-> FALSE, entry |-> {}, level |-> 0]]

\* a table with nothing mapped
EmptyTable == [q \in {RootAddr} |-> ZeroPage]

\* the page table at rest, one of the given tables
PtStart(tables) ==
    /\ mem \in tables
    /\ next_free = 0
    /\ pre = mem
    /\ last = NoOp

\* a failed assertion aborts: nothing runs afterwards
Panicked == last.ret = "Panic"

\* the record of an operation: what it was called with, the mapping and the
\* entry walk_addr found on entry, what it returned, its effects in order and
\* what allocate_page_table had to offer (null: the allocation fails).
\* shared_before: for a set_encrypted_4k that directly follows a successful
\* set_shared_4k of the same address, the entry and level before that call.
OpRecord(op, vaddr, r, page) ==
    [op |-> op, vaddr |-> vaddr, ret |-> r.ret, events |-> r.events, page |-> page,
     map |-> walk_addr(mem, vaddr), entry |-> Deref(mem, walk_addr(mem, vaddr)),
     shared_before |->
        IF op = "set_encrypted_4k" /\ last.op = "set_shared_4k"
           /\ last.vaddr = vaddr /\ last.ret = "Ok"
        THEN [some |-> TRUE, entry |-> last.entry, level |-> last.map.level]
        ELSE [some |-> FALSE, entry |-> {}, level |-> 0]]

\* the allocator after an operation that was offered `page`
Allocated(r, page) ==
    IF page # NULL /\ "alloc" \in {r.events[k] : k \in DOMAIN r.events}
    THEN next_free + 1 ELSE next_free

\* operations that never call the allocator are offered the null outcome only
Finish(op, vaddr, r, page) ==
    /\ page # NULL => "alloc" \in {r.events[k] : k \in DOMAIN r.events}
    /\ mem' = r.mem
    /\ pre' = mem
    /\ next_free' = Allocated(r, page)
    /\ last' = OpRecord(op, vaddr, r, page)
    /\ UNCHANGED <<dbVars, eoiVars, restVars, lifeVars>>

WalkAddr(vaddr) ==
    /\ ~Panicked
    /\ Finish("walk_addr", vaddr, [mem |-> mem, ret |-> "Ok", events |-> <<>>], NULL)

Split4k(vaddr, page) ==
    /\ ~Panicked
    /\ \E r \in {split_4k(mem, walk_addr(mem, vaddr), page)} : Finish("split_4k", vaddr, r, page)

SetShared4k(vaddr, page) ==
    /\ ~Panicked
    /\ \E r \in {set_shared_4k(mem, vaddr, page)} : Finish("set_shared_4k", vaddr, r, page)

SetEncrypted4k(vaddr, page) ==
    /\ ~Panicked
    /\ \E r \in {set_encrypted_4k(mem, vaddr, page)} : Finish("set_encrypted_4k", vaddr, r, page)

PtNext ==
    \E vaddr \in VAddrs :
        \/ WalkAddr(vaddr)
        \/ \E page \in AllocOutcomes(next_free) :
            \/ Split4k(vaddr, page)
            \/ SetShared4k(vaddr, page)
            \/ SetEncrypted4k(vaddr, page)


----------------------------------------------------------------------------
(* hv_doorbell.rs: HVDoorbellFlags, process_pending_events, and the        *)
(* hypervisor that shares the page                                         *)

\* HVDoorbellFlags: the bit of each field (rsvd_6_2 is bits 2..6)
NMI_PENDING == 0
MC_PENDING == 1
NO_FURTHER_SIGNAL == 7

ByteBits == 0..7

\* a slip in the mask: machine-check-pending is cleared as well
no_further_signal_mask_with_mc == {NO_FURTHER_SIGNAL, NMI_PENDING, MC_PENDING}

\* a slip in the mask: no-further-signal left out
no_further_signal_mask_nmi_only == {NMI_PENDING}

\* HVDoorbellFlags::new().with_no_further_signal(true).with_nmi_pending(true)
no_further_signal_mask == {NO_FURTHER_SIGNAL, NMI_PENDING}

\* a slip in the bitfield: the machine-check test reads the NMI bit
mc_pending_bit0(f) == NMI_PENDING \in f

\* flags.mc_pending()
mc_pending(f) == MC_PENDING \in f

\* AtomicU8::fetch_and(!mask): the new value of the byte
fetch_and_not(byte, mask) == byte \cap (ByteBits \ mask)

\* vectors dispatched in one invocation before the hypervisor pauses posting
MaxDispatch == 2

\* the vectors the hypervisor posts
Vectors == {33, 80}

\* the flag bits the hypervisor raises besides no-further-signal: NMI pending,
\* machine check pending, and a reserved bit
HvFlagBits == {NMI_PENDING, MC_PENDING, 2}

\* the doorbell page with the given bytes (PageBox::try_new_zeroed: zeroes),
\* the guest and the hypervisor at rest
DbStart(v, f) ==
    /\ db_vector = v
    /\ db_flags = f
    /\ hv_signal = FALSE
    /\ gpc = "idle"
    /\ prior = {}
    /\ swapped = 0
    /\ dispatched = <<>>
    /\ swaps = 0
    /\ hpc = "idle"
    /\ start = [vector |-> 0, flags |-> {}, ran |-> FALSE]
    /\ hv_wrote = FALSE

\* process_hv_events is entered: the local state of a new invocation
Enter ==
    /\ gpc = "idle"
    /\ gpc' = "fetch_and"
    /\ dispatched' = <<>>
    /\ swaps' = 0
    /\ start' = [vector |-> db_vector, flags |-> db_flags, ran |-> TRUE]
    /\ hv_wrote' = FALSE
    /\ UNCHANGED <<db_vector, db_flags, prior, swapped, hpc>>
    /\ UNCHANGED <<ptVars, eoiVars, restVars, lifeVars>>

\* the latched #HV signal is delivered: the trap entry calls process_hv_events
GuestSignalled ==
    /\ hv_signal
    /\ hv_signal' = FALSE
    /\ Enter

\* process_pending_events is called with no signal pending
GuestCalled ==
    /\ ~hv_signal
    /\ UNCHANGED hv_signal
    /\ Enter

\* lines 120-133: the fetch_and, and the panic on a pending machine check
GuestFetchAnd ==
    /\ gpc = "fetch_and"
    /\ prior' = db_flags
    /\ db_flags' = fetch_and_not(db_flags, no_further_signal_mask)
    /\ gpc' = IF mc_pending(db_flags) THEN "panic" ELSE "swap"
    /\ UNCHANGED <<db_vector, hv_signal, swapped, dispatched, swaps, hpc, start, hv_wrote>>
    /\ UNCHANGED <<ptVars, eoiVars, restVars, lifeVars>>

\* a slip in the loop: the byte is loaded, not swapped with zero
GuestSwap_load ==
    /\ gpc = "swap"
    /\ swapped' = db_vector
    /\ swaps' = swaps + 1
    /\ gpc' = IF db_vector = 0 THEN "idle" ELSE "dispatch"
    /\ UNCHANGED <<db_vector, db_flags, hv_signal, prior, dispatched, hpc, start, hv_wrote>>
    /\ UNCHANGED <<ptVars, eoiVars, restVars, lifeVars>>

\* lines 138-141: the swap; a zero ends the loop and the call returns
GuestSwap ==
    /\ gpc = "swap"
    /\ swapped' = db_vector
    /\ db_vector' = 0
    /\ swaps' = swaps + 1
    /\ gpc' = IF db_vector = 0 THEN "idle" ELSE "dispatch"
    /\ UNCHANGED <<db_flags, hv_signal, prior, dispatched, hpc, start, hv_wrote>>
    /\ UNCHANGED <<ptVars, eoiVars, restVars, lifeVars>>

\* a slip in the loop: the call returns after the first dispatch
GuestDispatch_return ==
    /\ gpc = "dispatch"
    /\ dispatched' = Append(dispatched, swapped)
    /\ gpc' = "idle"
    /\ UNCHANGED <<db_vector, db_flags, hv_signal, prior, swapped, swaps, hpc, start, hv_wrote>>
    /\ UNCHANGED <<ptVars, eoiVars, restVars, lifeVars>>

\* a slip in the loop: the byte is read again for the dispatch
GuestDispatch_reload ==
    /\ gpc = "dispatch"
    /\ dispatched' = Append(dispatched, db_vector)
    /\ gpc' = "swap"
    /\ UNCHANGED <<db_vector, db_flags, hv_signal, prior, swapped, swaps, hpc, start, hv_wrote>>
    /\ UNCHANGED <<ptVars, eoiVars, restVars, lifeVars>>

\* line 142: common_isr_handler(vector)
GuestDispatch ==
    /\ gpc = "dispatch"
    /\ dispatched' = Append(dispatched, swapped)
    /\ gpc' = "swap"
    /\ UNCHANGED <<db_vector, db_flags, hv_signal, prior, swapped, swaps, hpc, start, hv_wrote>>
    /\ UNCHANGED <<ptVars, eoiVars, restVars, lifeVars>>

\* The hypervisor posts an event in two steps: it writes the event to the
\* page, then it tests no-further-signal and, if that is clear, sets it and
\* raises the #HV signal.
HvPostVector(v) ==
    /\ hpc = "idle"
    /\ gpc # "idle" => Len(dispatched) < MaxDispatch
    /\ db_vector' = v
    /\ hpc' = "posted"
    /\ hv_wrote' = TRUE
    /\ UNCHANGED <<db_flags, hv_signal, gpc, prior, swapped, dispatched, swaps, start>>
    /\ UNCHANGED <<ptVars, eoiVars, restVars, lifeVars>>

HvPostFlag(b) ==
    /\ hpc = "idle"
    /\ b \notin db_flags
    /\ db_flags' = db_flags \cup {b}
    /\ hpc' = "posted"
    /\ hv_wrote' = TRUE
    /\ UNCHANGED <<db_vector, hv_signal, gpc, prior, swapped, dispatched, swaps, start>>
    /\ UNCHANGED <<ptVars, eoiVars, restVars, lifeVars>>

HvSignal ==
    /\ hpc = "posted"
    /\ hpc' = "idle"
    /\ IF NO_FURTHER_SIGNAL \in db_flags
       THEN UNCHANGED <<db_flags, hv_signal, hv_wrote>>
       ELSE /\ db_flags' = db_flags \cup {NO_FURTHER_SIGNAL}
            /\ hv_signal' = TRUE
            /\ hv_wrote' = TRUE
    /\ UNCHANGED <<db_vector, gpc, prior, swapped, dispatched, swaps, start>>
    /\ UNCHANGED <<ptVars, eoiVars, restVars, lifeVars>>

DbNext ==
    \/ GuestSignalled
    \/ GuestCalled
    \/ GuestFetchAnd
    \/ GuestSwap
    \/ GuestDispatch
    \/ \E v \in Vectors : HvPostVector(v)
    \/ \E b \in HvFlagBits : HvPostFlag(b)
    \/ HvSignal

----------------------------------------------------------------------------
(* hv_doorbell.rs: no_eoi_required, its callers and the writers of the byte *)

\* concurrent callers of no_eoi_required
NumCallers == 2

\* times the hypervisor sets bit 0
MaxSets == 2

EoiCallers == 1..NumCallers

\* the no-EOI-required byte as given (zero in a new page), no call running
EoiStart(byte) ==
    /\ no_eoi = byte
    /\ eoi_pc = [c \in EoiCallers |-> "idle"]
    /\ eoi_local = [c \in EoiCallers |-> {}]
    /\ eoi_ret = [c \in EoiCallers |-> "none"]
    /\ sets = 0
    /\ trues = 0

\* the top of the loop, lines 155-157, with the value just observed: return
\* false, or go on to the compare-and-swap
EoiLoopTop(c, observed) ==
    /\ eoi_local' = [eoi_local EXCEPT ![c] = observed]
    /\ IF 0 \notin observed
       THEN /\ eoi_pc' = [eoi_pc EXCEPT ![c] = "idle"]
            /\ eoi_ret' = [eoi_ret EXCEPT ![c] = "false"]
       ELSE /\ eoi_pc' = [eoi_pc EXCEPT ![c] = "cas"]
            /\ UNCHANGED eoi_ret

\* line 152: the load
EoiLoad(c) ==
    /\ eoi_pc[c] = "idle"
    /\ EoiLoopTop(c, no_eoi)
    /\ UNCHANGED <<no_eoi, sets, trues>>
    /\ UNCHANGED <<ptVars, dbVars, restVars, lifeVars>>

\* a slip: a plain store in place of the compare-and-swap
cas_always(current, expected) == TRUE

\* compare_exchange_weak may succeed only when the byte holds the expected value
cas_may_succeed(current, expected) == current = expected

\* lines 159-167, Ok: the byte is replaced, the loop ends and the call returns true
EoiCasOk(c) ==
    /\ eoi_pc[c] = "cas"
    /\ cas_may_succeed(no_eoi, eoi_local[c])
    /\ no_eoi' = eoi_local[c] \ {0}
    /\ eoi_pc' = [eoi_pc EXCEPT ![c] = "idle"]
    /\ eoi_ret' = [eoi_ret EXCEPT ![c] = "true"]
    /\ trues' = trues + 1
    /\ UNCHANGED <<eoi_local, sets>>
    /\ UNCHANGED <<ptVars, dbVars, restVars, lifeVars>>

\* lines 159-167, Err(new): the byte differs, or the weak compare-and-swap
\* fails spuriously; the loop goes on with the value the byte holds
EoiCasErr(c) ==
    /\ eoi_pc[c] = "cas"
    /\ EoiLoopTop(c, no_eoi)
    /\ UNCHANGED <<no_eoi, sets, trues>>
    /\ UNCHANGED <<ptVars, dbVars, restVars, lifeVars>>

\* the hypervisor sets bit 0
HvSetNoEoi ==
    /\ sets < MaxSets
    /\ 0 \notin no_eoi
    /\ no_eoi' = no_eoi \cup {0}
    /\ sets' = sets + 1
    /\ UNCHANGED <<eoi_pc, eoi_local, eoi_ret, trues>>
    /\ UNCHANGED <<ptVars, dbVars, restVars, lifeVars>>

\* the hypervisor sets bit 0 again while it is set, or flips bit 1
HvWriteNoEoi ==
    /\ \/ 0 \in no_eoi /\ no_eoi' = no_eoi
       \/ no_eoi' = (no_eoi \ {1}) \cup ({1} \ no_eoi)
    /\ UNCHANGED <<eoi_pc, eoi_local, eoi_ret, sets, trues>>
    /\ UNCHANGED <<ptVars, dbVars, restVars, lifeVars>>

EoiNext ==
    \/ \E c \in EoiCallers : EoiLoad(c) \/ EoiCasOk(c) \/ EoiCasErr(c)
    \/ HvSetNoEoi
    \/ HvWriteNoEoi

----------------------------------------------------------------------------
(* hv_doorbell.rs: the rest of the page.  process_pending_events and       *)
(* no_eoi_required never name per_vmpl_events or per_vmpl; the hypervisor  *)
(* writes them.                                                            *)

\* the lower VMPLs, one HVExtIntInfo block each
Vmpls == 1..3

\* HVExtIntStatus with pending_vector 0x21 and multiple_vectors (bit 14) set
VmplStatus == ToBits(33) \cup {14}

\* the rest of a zeroed page
RestStart(events) ==
    /\ per_vmpl_events = events
    /\ per_vmpl = [i \in Vmpls |-> {}]

\* the hypervisor has written none of the fields process_pending_events
\* leaves alone
OtherQuiet == no_eoi = {} /\ per_vmpl_events = {}

\* the hypervisor posts an event for a lower VMPL: the status word of its
\* block and its bit in per_vmpl_events
HvPostVmpl(i) ==
    /\ OtherQuiet
    /\ per_vmpl_events' = per_vmpl_events \cup {i}
    /\ per_vmpl' = [per_vmpl EXCEPT ![i] = VmplStatus]
    /\ UNCHANGED <<ptVars, dbVars, eoiVars, lifeVars>>

\* the hypervisor sets no-EOI-required while the guest processes events
HvPostNoEoi == OtherQuiet /\ HvSetNoEoi

PageNext ==
    \/ DbNext
    \/ \E i \in Vmpls : HvPostVmpl(i)
    \/ HvPostNoEoi

----------------------------------------------------------------------------
(* hv_doorbell.rs: HVDoorbellPage::new, leak and Drop.  The allocator     *)
(* (PageBox), make_page_shared, make_page_private and                     *)
(* GHCB::register_hv_doorbell are collaborators; each call succeeds or    *)
(* fails, and a failed call changes nothing.                              *)

\* make_page_shared(vaddr): the visibility afterwards
make_page_shared(vis, ok) == IF ok THEN "shared" ELSE vis

\* make_page_private(vaddr): the visibility afterwards
make_page_private(vis, ok) == IF ok THEN "private" ELSE vis

\* ghcb.register_hv_doorbell(paddr): whether the page is registered afterwards
register_hv_doorbell(reg, ok) == reg \/ ok

\* the page before HVDoorbellPage::new ("start"), or installed for good as
\* the doorbell of the CPU ("leaked")
LifeStart(pc) ==
    /\ lpc = pc
    /\ visibility = IF pc = "leaked" THEN "shared" ELSE "private"
    /\ registered = (pc = "leaked")
    /\ frame = IF pc = "leaked" THEN "allocated" ELSE "free"
    /\ new_ret = IF pc = "leaked" THEN "Ok" ELSE "none"

\* line 60: PageBox::try_new_zeroed()?
NewAlloc ==
    /\ lpc = "start"
    /\ \E ok \in BOOLEAN :
        /\ frame' = IF ok THEN "allocated" ELSE frame
        /\ lpc' = IF ok THEN "make_shared" ELSE "done"
        /\ new_ret' = IF ok THEN new_ret ELSE "Err"
    /\ UNCHANGED <<visibility, registered>>
    /\ UNCHANGED <<ptVars, dbVars, eoiVars, restVars>>

\* lines 63-66: make_page_shared(page.vaddr())?; on Err the PageBox is dropped
NewMakeShared ==
    /\ lpc = "make_shared"
    /\ \E ok \in BOOLEAN :
        /\ visibility' = make_page_shared(visibility, ok)
        /\ lpc' = IF ok THEN "register" ELSE "box_drop"
        /\ new_ret' = IF ok THEN new_ret ELSE "Err"
    /\ UNCHANGED <<registered, frame>>
    /\ UNCHANGED <<ptVars, dbVars, eoiVars, restVars>>

\* lines 68-72: Self(page.assume_init()), ghcb.register_hv_doorbell(paddr)?,
\* Ok(page); on Err the HVDoorbellPage is dropped
NewRegister ==
    /\ lpc = "register"
    /\ \E ok \in BOOLEAN :
        /\ registered' = register_hv_doorbell(registered, ok)
        /\ lpc' = IF ok THEN "live" ELSE "drop"
        /\ new_ret' = IF ok THEN "Ok" ELSE "Err"
    /\ UNCHANGED <<visibility, frame>>
    /\ UNCHANGED <<ptVars, dbVars, eoiVars, restVars>>

\* no call through the handle is running: it can be moved or dropped
Unborrowed == \A c \in EoiCallers : eoi_pc[c] = "idle"

\* HVDoorbellPage::leak: ManuallyDrop, the page is never dropped
Leak ==
    /\ lpc = "live"
    /\ Unborrowed
    /\ lpc' = "leaked"
    /\ UNCHANGED <<visibility, registered, frame, new_ret>>
    /\ UNCHANGED <<ptVars, dbVars, eoiVars, restVars>>

\* a slip in Drop: the result of make_page_private is ignored
Drop_unchecked ==
    /\ lpc \in {"live", "drop"}
    /\ Unborrowed
    /\ \E ok \in BOOLEAN :
        /\ visibility' = make_page_private(visibility, ok)
        /\ lpc' = "box_drop"
    /\ UNCHANGED <<registered, frame, new_ret>>
    /\ UNCHANGED <<ptVars, dbVars, eoiVars, restVars>>

\* Drop for HVDoorbellPage, of a handle new returned or of the one new built
\* before the registration failed: make_page_private(..).expect(..), then the
\* PageBox inside is dropped
Drop ==
    /\ lpc \in {"live", "drop"}
    /\ Unborrowed
    /\ \E ok \in BOOLEAN :
        /\ visibility' = make_page_private(visibility, ok)
        /\ lpc' = IF ok THEN "box_drop" ELSE "panic"
    /\ UNCHANGED <<registered, frame, new_ret>>
    /\ UNCHANGED <<ptVars, dbVars, eoiVars, restVars>>

\* the PageBox is dropped: the frame goes back to the allocator
PageBoxDrop ==
    /\ lpc = "box_drop"
    /\ frame' = "released"
    /\ lpc' = "done"
    /\ UNCHANGED <<visibility, registered, new_ret>>
    /\ UNCHANGED <<ptVars, dbVars, eoiVars, restVars>>

\* the page is in use: no_eoi_required is called through the handle or the
\* leaked reference, and the hypervisor writes the byte
Use ==
    /\ lpc \in {"live", "leaked"}
    /\ EoiNext

LifeNext ==
    \/ NewAlloc
    \/ NewMakeShared
    \/ NewRegister
    \/ Leak
    \/ Drop
    \/ PageBoxDrop
    \/ Use

----------------------------------------------------------------------------
(* The specifications: the doorbell with its hypervisor (Spec; SpecLive    *)
(* with the guest running on; SpecPage with every field of the page        *)
(* written), no_eoi_required with its callers (SpecEoi), the page table    *)
(* (SpecPT) and the life of the page (SpecLife), each with the others at   *)
(* rest                                                                    *)

Init ==
    /\ DbStart(0, {})
    /\ EoiStart({})
    /\ RestStart({})
    /\ LifeStart("leaked")
    /\ PtStart({EmptyTable})

Next == DbNext

Spec == Init /\ [][Next]_vars

InitEoi ==
    /\ DbStart(0, {})
    /\ EoiStart({})
    /\ RestStart({})
    /\ LifeStart("leaked")
    /\ PtStart({EmptyTable})

\* The guest with a hypervisor that posts vectors and raises the two named
\* flags, NMI pending and machine check pending
LiveFlagBits == {NMI_PENDING, MC_PENDING}

NextLive ==
    \/ GuestSignalled
    \/ GuestCalled
    \/ GuestFetchAnd
    \/ GuestSwap
    \/ GuestDispatch
    \/ \E v \in Vectors : HvPostVector(v)
    \/ \E b \in LiveFlagBits : HvPostFlag(b)
    \/ HvSignal

\* the guest CPU runs on: a latched #HV signal is delivered and an invocation
\* that has begun takes its next step
GuestRuns == GuestSignalled \/ GuestFetchAnd \/ GuestSwap \/ GuestDispatch

\* The guest runs on, and the hypervisor finishes a post it has begun (the
\* write, then the test of no-further-signal).  Nothing makes the hypervisor
\* post, or the guest call process_pending_events unsignalled.
Fairness ==
    /\ WF_vars(GuestRuns)
    /\ WF_vars(HvSignal)

SpecLive == Init /\ [][NextLive]_vars /\ Fairness

SpecEoi == InitEoi /\ [][EoiNext]_vars

InitPT ==
    /\ DbStart(0, {})
    /\ EoiStart({})
    /\ RestStart({})
    /\ LifeStart("leaked")
    /\ PtStart({InitialTable(sc.huge, sc.leaf) : sc \in Scenarios})

SpecPT == InitPT /\ [][PtNext]_vars

\* process_pending_events with a hypervisor that also writes the other fields
InitPage ==
    /\ DbStart(0, {})
    /\ EoiStart({})
    /\ RestStart({})
    /\ LifeStart("leaked")
    /\ PtStart({EmptyTable})

SpecPage == InitPage /\ [][PageNext]_vars

\* the life of a doorbell page, from before HVDoorbellPage::new
InitLife ==
    /\ DbStart(0, {})
    /\ EoiStart({})
    /\ RestStart({})
    /\ LifeStart("start")
    /\ PtStart({EmptyTable})

SpecLife == InitLife /\ [][LifeNext]_vars

----------------------------------------------------------------------------
(* Doorbell claims *)

\* C1: no reachable state has a nonzero pending-vector byte while no
\* invocation of process_pending_events is running, no signal is latched and
\* the hypervisor is not in the middle of a post: a posted vector is never
\* stranded.
C1_NoStrandedVector ==
    ~(db_vector # 0 /\ gpc = "idle" /\ ~hv_signal /\ hpc = "idle")

\* C1 witness: an invocation has run to its end, and a vector posted since it
\* began waits in the byte with the signal latched
C1_Witness ==
    /\ gpc = "idle" /\ start.ran /\ swaps > 0 /\ hv_wrote
    /\ db_vector # 0 /\ hv_signal /\ hpc = "idle"

\* an invocation has returned, the hypervisor wrote nothing while it ran or
\* since, and the machine-check bit was clear when it began
QuietReturn ==
    /\ gpc = "idle" /\ start.ran /\ ~hv_wrote
    /\ MC_PENDING \notin start.flags

\* C2: with the machine-check bit clear and no hypervisor write, an invocation
\* that began with the vector byte at a nonzero V has dispatched exactly V, once,
\* and left the byte at zero; one that began with the byte at zero (a second
\* invocation, no vector posted) has dispatched nothing; begun with V = 0x21
\* and flags = 0, it leaves flags at 0.
C2_DispatchOnce ==
    QuietReturn =>
        /\ db_vector = 0
        /\ start.vector # 0 => dispatched = <<start.vector>>
        /\ start.vector = 0 => dispatched = <<>>
        /\ (start.vector = 33 /\ start.flags = {}) => db_flags = {}

\* C2 witness: the scenario of the claim, vector 0x21 and flags 0
C2_Witness ==
    /\ QuietReturn
    /\ start.vector = 33 /\ start.flags = {}
    /\ dispatched = <<33>> /\ db_vector = 0 /\ db_flags = {}

\* C3: an invocation that began with the machine-check bit set, or whose
\* fetch_and found it set, aborts, and it aborts having dispatched nothing and
\* swapped nothing.
C3_MachineCheckAborts ==
    /\ (start.ran /\ MC_PENDING \in start.flags) => gpc \in {"fetch_and", "panic"}
    /\ (gpc \in {"swap", "dispatch", "panic"} /\ MC_PENDING \in prior) => gpc = "panic"
    /\ gpc = "panic" => (dispatched = <<>> /\ swaps = 0 /\ MC_PENDING \in prior)

\* C3 witness: the guest aborted while a vector was pending
C3_Witness == gpc = "panic" /\ db_vector # 0 /\ MC_PENDING \in prior

----------------------------------------------------------------------------
(* no_eoi_required claims *)

\* C4: every set of bit 0 is answered by at most one call that returns true,
\* and by exactly one once the bit is clear again: the calls that returned
\* true, plus one if the bit is set, are as many as the sets.
C4_TrueOncePerSet ==
    trues + (IF 0 \in no_eoi THEN 1 ELSE 0) = sets

\* C4 witness: two callers raced for one set after a failed compare-and-swap;
\* one returned true, the other false
C4_Witness ==
    /\ sets = 1 /\ trues = 1
    /\ eoi_ret[1] = "true" /\ eoi_ret[2] = "false"
    /\ 0 \in eoi_local[2]

----------------------------------------------------------------------------
(* Page-table claims.  The entries are read here bit by bit, not through  *)
(* the operators that model PTEntry.                                      *)

CBitOf(e) == C_BIT \in e
PhysOf(e) == e \cap (12..50)
FlagsOf(e) == e \cap {0, 1, 2, 5, 6, 7, 8, 63}
IsHugeMapping(e) == 0 \in e /\ 7 \in e

\* the last operation was a successful split_4k of a level-1 huge mapping
SplitDone ==
    /\ last.op = "split_4k" /\ last.ret = "Ok"
    /\ last.map.level = 1 /\ IsHugeMapping(last.entry)

\* the level-1 entry that was split, as it is now, and the leaf table behind it
SplitEntryNow == mem[last.map.page][last.map.idx]
SplitLeafNow == mem[PhysOf(SplitEntryNow)]

\* C5: after split_4k succeeds on a level-1 huge mapping, every one of the 512
\* sub-entries has the confidentiality bit of the original huge entry, whether
\* that entry was encrypted or shared.
C5_SplitKeepsCBit ==
    SplitDone =>
        \A i \in 0..511 : CBitOf(SplitLeafNow[i]) = CBitOf(last.entry)

\* the index-0 field of vaddr replaced by i
WithIndex0(vaddr, i) == (vaddr \ (12..20)) \cup PageOffset[i]

\* C6: after split_4k succeeds on a level-1 huge mapping with frame base B,
\* sub-entry i has address B + i*4096 and the original flags without the huge
\* bit; the level-1 entry points at the new leaf table with the original flags
\* without the huge bit; and the walk of every page of the 2 MiB range ends at
\* level 0, on sub-entry i, that is on the physical address it had before.
C6_SplitAddressesAndFlags ==
    SplitDone =>
        LET B == last.entry \cap (21..50)
            F == FlagsOf(last.entry) \ {7}
        IN  /\ PhysOf(SplitEntryNow) \notin DOMAIN pre
            /\ PhysOf(SplitEntryNow) \in DOMAIN mem
            /\ FlagsOf(SplitEntryNow) = F
            /\ \A i \in 0..511 :
                /\ PhysOf(SplitLeafNow[i]) = B \cup PageOffset[i]
                /\ FlagsOf(SplitLeafNow[i]) = F
                /\ walk_addr(mem, WithIndex0(last.vaddr, i))
                     = [level |-> 0, page |-> PhysOf(SplitEntryNow), idx |-> i]

\* C6 witness: a huge mapping with accessed, dirty, global and no-execute set
\* has been split
C6_Witness ==
    /\ SplitDone
    /\ {5, 6, 8, 63} \subseteq last.entry
    /\ walk_addr(mem, last.vaddr).level = 0

\* the last two operations were set_shared_4k and then set_encrypted_4k of one
\* address that was mapped at 4 KiB granularity, and both succeeded
RoundTripDone ==
    /\ last.op = "set_encrypted_4k" /\ last.ret = "Ok"
    /\ last.shared_before.some /\ last.shared_before.level = 0

\* the entry of the round trip, as it is now
RoundTripEntryNow == mem[last.map.page][last.map.idx]

\* C7 as claimed: set_shared_4k followed by set_encrypted_4k on one address
\* restores the entry bit for bit, whatever the entry was.
C7_RoundTripRestoresEntry ==
    RoundTripDone => RoundTripEntryNow = last.shared_before.entry

\* C7 as amended: set_shared_4k followed by set_encrypted_4k on an address
\* mapped at 4 KiB granularity leaves the entry with the confidentiality bit
\* set, with the physical address and the eight flags it had, and with every
\* other bit clear.
C7_RoundTripAmended ==
    RoundTripDone =>
        LET e0 == last.shared_before.entry IN
        /\ RoundTripEntryNow = PhysOf(e0) \cup FlagsOf(e0) \cup {C_BIT}
        /\ (C_BIT \in e0 /\ e0 \subseteq (12..51) \cup {0, 1, 2, 5, 6, 7, 8, 63})
             => RoundTripEntryNow = e0

\* C7 witness: the round trip has run on an entry that was encrypted and held
\* only flags and address: it is restored
C7_Witness ==
    /\ RoundTripDone
    /\ C_BIT \in last.shared_before.entry
    /\ RoundTripEntryNow = last.shared_before.entry

\* the last operation met a level-1 huge mapping and its allocation failed
AllocFailed ==
    /\ last.op \in {"split_4k", "set_shared_4k", "set_encrypted_4k"}
    /\ last.map.level = 1 /\ IsHugeMapping(last.entry)
    /\ last.page = NULL

\* C8: when the frame allocation fails in the split of a level-1 huge mapping,
\* split_4k, set_shared_4k and set_encrypted_4k return an error and every
\* entry of every table is unchanged.
C8_AllocFailureLeavesTable ==
    AllocFailed => last.ret = "Err" /\ mem = pre

\* C8 witness: set_shared_4k has failed on an allocation failure
C8_Witness == AllocFailed /\ last.op = "set_shared_4k" /\ last.ret = "Err"

\* C9: split_4k of a mapping that is not level 1 allocates nothing and changes
\* no entry; it succeeds at level 0 (every time) and fails at levels 2 and 3.
C9_SplitOtherLevels ==
    (last.op = "split_4k" /\ last.map.level # 1) =>
        /\ last.events = <<>>
        /\ mem = pre
        /\ last.map.level = 0 => last.ret = "Ok"
        /\ last.map.level \in {2, 3} => last.ret = "Err"

\* C9 witness: split_4k has succeeded on a level-0 mapping
C9_Witness == last.op = "split_4k" /\ last.map.level = 0 /\ last.ret = "Ok"

\* the descent of a walk, read from the table: the index at each level, the
\* entry met there, and whether the walk goes on below it
IndexAt(L, vaddr) == BitsToNat({b \in 0..8 : b + 12 + 9 * L \in vaddr})
Descends(e) == 0 \in e /\ 7 \notin e
Entry3(m, vaddr) == m[RootAddr][IndexAt(3, vaddr)]
Entry2(m, vaddr) == m[PhysOf(Entry3(m, vaddr))][IndexAt(2, vaddr)]
Entry1(m, vaddr) == m[PhysOf(Entry2(m, vaddr))][IndexAt(1, vaddr)]

StopLevel(m, vaddr) ==
    IF ~Descends(Entry3(m, vaddr)) THEN 3
    ELSE IF ~Descends(Entry2(m, vaddr)) THEN 2
    ELSE IF ~Descends(Entry1(m, vaddr)) THEN 1
    ELSE 0

StopPage(m, vaddr) ==
    CASE StopLevel(m, vaddr) = 3 -> RootAddr
      [] StopLevel(m, vaddr) = 2 -> PhysOf(Entry3(m, vaddr))
      [] StopLevel(m, vaddr) = 1 -> PhysOf(Entry2(m, vaddr))
      [] StopLevel(m, vaddr) = 0 -> PhysOf(Entry1(m, vaddr))

\* C10: walk_addr returns the entry at the level where the descent from level 3
\* first meets an entry that is not present or is huge, and a level-0 entry
\* when the entries at levels 3, 2 and 1 are all present and not huge; in the
\* initial tables the 4 KiB mapping yields level 0 and the 2 MiB mapping level 1.
C10_WalkLevel ==
    last.op = "walk_addr" =>
        /\ last.map.level = StopLevel(pre, last.vaddr)
        /\ last.map.page = StopPage(pre, last.vaddr)
        /\ last.map.idx = IndexAt(last.map.level, last.vaddr)
        /\ last.ret = "Ok" /\ mem = pre
        /\ (pre[L1Addr][0] \in {sc.huge : sc \in Scenarios}
              /\ last.vaddr = VA(0, 0, 0, 7, 16)) => last.map.level = 1
        /\ last.vaddr = VA(0, 0, 1, 0, 291) => last.map.level = 0

\* C10 witness: a walk has ended at level 0 in a leaf table a split installed
C10_Witness ==
    /\ last.op = "walk_addr" /\ last.map.level = 0
    /\ last.map.page \notin {RootAddr, L2Addr, L1Addr, L0Addr}

\* the last operation met a level-1 mapping whose entry is not huge
NonHugeLevel1 ==
    /\ last.op \in {"split_4k", "set_shared_4k", "set_encrypted_4k"}
    /\ last.map.level = 1 /\ 7 \notin last.entry

\* C11: split_4k on a level-1 mapping whose entry is not a huge mapping (a
\* not-present entry at which walk_addr stopped) returns an error and leaves
\* the table unchanged, and so do set_shared_4k and set_encrypted_4k on an
\* address whose level-1 entry is not present: none of them aborts.
C11_NonHugeSplitReturnsErr ==
    NonHugeLevel1 => last.ret = "Err" /\ mem = pre

\* the last operation was set_shared_4k or set_encrypted_4k
ToggleOp == last.op \in {"set_shared_4k", "set_encrypted_4k"}

\* the effects of the last operation, as a set
Effects == {last.events[k] : k \in DOMAIN last.events}

\* C12: when split_4k succeeds inside set_shared_4k or set_encrypted_4k (also
\* on a level-1 entry with the huge bit set and the present bit clear), the
\* walk that follows ends at level 0: the operation returns an error only when
\* split_4k did, and never after the table was changed.
C12_ErrOnlyFromSplit ==
    ToggleOp =>
        /\ "entry" \in Effects => walk_addr(mem, last.vaddr).level = 0
        /\ last.ret = "Err" => ("entry" \notin Effects /\ mem = pre)

\* the entry the descent for vaddr stops at, and the physical page vaddr
\* translates to through it (a level-L entry maps 2^(12+9L) bytes)
EntryAt(m, vaddr) ==
    m[StopPage(m, vaddr)][IndexAt(StopLevel(m, vaddr), vaddr)]
FrameOf(m, vaddr) ==
    LET L == StopLevel(m, vaddr) IN
    (EntryAt(m, vaddr) \cap ((12 + 9 * L)..50)) \cup (vaddr \cap (12..(11 + 9 * L)))

\* the last operation was a set_shared_4k or set_encrypted_4k that succeeded
ToggleOk == ToggleOp /\ last.ret = "Ok"

\* C13: when set_shared_4k(vaddr) succeeds the walk of vaddr ends at a level-0
\* entry with the confidentiality bit clear, when set_encrypted_4k(vaddr)
\* succeeds at a level-0 entry with the bit set; the physical page vaddr
\* translates to is the one of before the call, and so are the flags of the
\* entry (of a huge mapping the call split: its flags without the huge bit).
C13_ToggleSetsCBitOnly ==
    ToggleOk =>
        /\ StopLevel(mem, last.vaddr) = 0
        /\ CBitOf(EntryAt(mem, last.vaddr)) = (last.op = "set_encrypted_4k")
        /\ FrameOf(mem, last.vaddr) = FrameOf(pre, last.vaddr)
        /\ last.entry = EntryAt(pre, last.vaddr)
        /\ FlagsOf(EntryAt(mem, last.vaddr))
             = FlagsOf(last.entry) \ (IF last.map.level = 1 THEN {7} ELSE {})

\* C13 witness: set_shared_4k has succeeded on a page of an encrypted huge
\* mapping with accessed, dirty, global and no-execute set
C13_Witness ==
    /\ ToggleOk /\ last.op = "set_shared_4k"
    /\ last.map.level = 1 /\ {0, 5, 6, 7, 8, 51, 63} \subseteq last.entry
    /\ ~CBitOf(EntryAt(mem, last.vaddr))

\* the pages looked at beside the one of the last call: the other 511 pages of
\* its 2 MiB range and the pages of the other addresses, where they are mapped
\* (the descent ends at a present entry) before the call
SamePage(a, b) == a \cap (12..63) = b \cap (12..63)
OtherPages ==
    { va \in {WithIndex0(last.vaddr, i) : i \in 0..511} \cup VAddrs :
        ~SamePage(va, last.vaddr) /\ 0 \in EntryAt(pre, va) }

\* C14: set_shared_4k(vaddr) and set_encrypted_4k(vaddr) change the
\* confidentiality bit of the page of vaddr only: every other mapped page,
\* the 511 siblings in a huge mapping the call splits included, translates to
\* the physical page it did and has the confidentiality bit it had, whether
\* the huge mapping was encrypted or shared.
C14_OtherPagesKept ==
    ToggleOp =>
        \A va \in OtherPages :
            /\ FrameOf(mem, va) = FrameOf(pre, va)
            /\ CBitOf(EntryAt(mem, va)) = CBitOf(EntryAt(pre, va))

\* where in the effects of the last operation `ev` happened, and how often the
\* TLB was flushed
EffectAt(ev) == {k \in DOMAIN last.events : last.events[k] = ev}
Flushes == Cardinality(EffectAt("flush_tlb"))

\* the last operation replaced a level-1 huge entry by a leaf table
SplitPerformed ==
    /\ last.op \in {"split_4k", "set_shared_4k", "set_encrypted_4k"}
    /\ EffectAt("entry") # {}

\* C15: in a split of a level-1 huge mapping the TLB is flushed once, after the
\* 512 leaf entries are written and after the level-1 entry is replaced, and
\* before split_4k returns (in set_shared_4k and set_encrypted_4k: before the
\* confidentiality bit is toggled, and not again after it); an operation that
\* replaces no level-1 entry, as on a level-0 mapping, does not flush.
C15_FlushAfterSplit ==
    /\ SplitPerformed =>
        /\ Flushes = 1
        /\ \A f \in EffectAt("flush_tlb") :
            /\ EffectAt("leaf") # {} /\ \A k \in EffectAt("leaf") : k < f
            /\ \A k \in EffectAt("entry") : k < f
            /\ \A k \in EffectAt("toggle") : f < k
            /\ last.op = "split_4k" => f = Len(last.events)
    /\ ~SplitPerformed => Flushes = 0
    /\ (ToggleOk /\ last.map.level = 0) => Flushes = 0
    /\ (ToggleOk /\ last.map.level = 1) => Flushes = 1
    /\ SplitDone => SplitPerformed

\* C15 witness: set_encrypted_4k has split a huge mapping, flushed, and toggled
C15_Witness ==
    /\ ToggleOk /\ last.op = "set_encrypted_4k" /\ last.map.level = 1
    /\ Flushes = 1 /\ EffectAt("toggle") # {}

----------------------------------------------------------------------------
(* Claims on the life of the doorbell page *)

\* C16: through the whole life of a doorbell page (HVDoorbellPage::new with
\* each of its failure points, use, leak, drop) the page is registered with
\* the hypervisor only while it is shared: register_hv_doorbell is called only
\* once make_page_shared has succeeded, and in no state is the page registered
\* and private.
C16_RegisteredOnlyWhileShared ==
    /\ lpc = "register" => visibility = "shared"
    /\ registered => visibility = "shared"

\* C17: the backing frame goes back to the allocator only when the page is
\* private: on each path of HVDoorbellPage::new (make_page_shared fails, the
\* registration fails, success and then drop) the frame was never shared or
\* has been made private before it is released; a make_page_private that fails
\* aborts and the frame is not released; a leaked page stays shared and is
\* never released.
C17_ReleasedOnlyWhenPrivate ==
    /\ lpc = "box_drop" => visibility = "private"
    /\ frame = "released" => (visibility = "private" /\ lpc = "done")
    /\ lpc = "panic" => (frame = "allocated" /\ visibility = "shared")
    /\ lpc = "leaked" => (frame = "allocated" /\ visibility = "shared")
    /\ (lpc = "done" /\ new_ret = "Err") => frame \in {"free", "released"}

\* C17 witness: new succeeded, the handle was dropped and the frame released
C17_Witness ==
    /\ new_ret = "Ok" /\ lpc = "done"
    /\ frame = "released" /\ visibility = "private"

----------------------------------------------------------------------------
(* Claims on the drain loop *)

\* the guest takes a step of process_pending_events (every step of it moves
\* gpc, no step of the hypervisor does)
GuestStep == gpc' # gpc

\* what a swap and a dispatch do: the swap takes the byte and leaves zero, a
\* nonzero value taken goes to the dispatch and a zero ends the loop; the
\* dispatch hands over the value the swap took, and nothing else adds to the
\* dispatched vectors
SwapThenDispatch ==
    /\ (GuestStep /\ gpc = "swap") =>
        /\ swapped' = db_vector /\ db_vector' = 0
        /\ dispatched' = dispatched
        /\ gpc' = IF swapped' = 0 THEN "idle" ELSE "dispatch"
    /\ (GuestStep /\ gpc = "dispatch") =>
        /\ swapped # 0
        /\ dispatched' = Append(dispatched, swapped)
        /\ gpc' = "swap" /\ db_vector' = db_vector
    /\ (dispatched' # dispatched /\ dispatched' # <<>>) => gpc = "dispatch"

\* a posted vector v is taken by a swap, unless the hypervisor overwrites it
\* or the guest has aborted on a machine check; a vector taken is dispatched
Served(v) ==
    /\ (db_vector = v) ~>
          \/ gpc = "dispatch" /\ swapped = v
          \/ db_vector \notin {0, v}
          \/ gpc = "panic"
    /\ (gpc = "dispatch" /\ swapped = v) ~>
          (gpc = "swap" /\ dispatched # <<>> /\ dispatched[Len(dispatched)] = v)

\* C18: with the guest and the hypervisor's post running on (weak fairness),
\* every nonzero vector the hypervisor posts and does not overwrite is
\* dispatched in the end; the guest dispatches exactly the nonzero values its
\* swaps take out of the byte, each once: never 0, never a value twice for one
\* post (the swap leaves zero), never dropping a value taken.
C18_PostedIsDispatched ==
    /\ \A v \in Vectors : Served(v)
    /\ [][SwapThenDispatch]_vars
    /\ [](\A k \in DOMAIN dispatched : dispatched[k] # 0)
    /\ [](Len(dispatched) = IF gpc \in {"fetch_and", "panic", "swap"} \/ ~start.ran
                            THEN swaps ELSE swaps - 1)

\* C18 witness: an invocation has returned having dispatched one vector that
\* was in the byte when it began and then one the hypervisor posted meanwhile
C18_Witness ==
    /\ gpc = "idle" /\ start.ran /\ hv_wrote
    /\ start.vector = 33 /\ dispatched = <<33, 80>> /\ swaps = 3

\* C19: a step of process_pending_events writes nothing but the
\* no-further-signal and NMI-pending bits of flags, which the fetch_and clears
\* together in one step, and the pending-vector byte, which only the swap
\* writes: the machine-check and reserved bits of flags, the no-EOI-required
\* byte, the per-VMPL-events byte and the three per-VMPL blocks are after the
\* step what they were before it, that is what the hypervisor last wrote, also
\* when the hypervisor raises other flag bits between the steps.
C19_WritesOnlyTwoFlagBitsAndVector ==
    [][GuestStep =>
        /\ db_flags' = IF gpc = "fetch_and" THEN db_flags \ {0, 7} ELSE db_flags
        /\ db_vector' # db_vector => gpc = "swap"
        /\ no_eoi' = no_eoi
        /\ per_vmpl_events' = per_vmpl_events
        /\ per_vmpl' = per_vmpl]_vars

\* C19 witness: an invocation that began with no-further-signal, NMI-pending
\* and a reserved bit set has dispatched and returned; the reserved bit and
\* the per-VMPL event the hypervisor posted are in the page
C19_Witness ==
    /\ gpc = "idle" /\ start.ran /\ dispatched # <<>>
    /\ {0, 2, 7} \subseteq start.flags /\ db_flags = {2}
    /\ per_vmpl_events = {2} /\ per_vmpl[2] = VmplStatus

\* the drain loop is running: the fetch_and found the machine-check bit clear
InLoop == gpc \in {"swap", "dispatch"}

\* C20: an invocation that began with the machine-check bit clear runs to its
\* end: the fetch_and leads into the drain loop, the loop ends (the hypervisor
\* posts finitely many vectors while it runs), and on return the loop has made
\* one iteration more than it dispatched vectors.
C20_DrainLoopTerminates ==
    /\ InLoop ~> (gpc = "idle")
    /\ [][(GuestStep /\ gpc = "fetch_and" /\ 1 \notin db_flags) => gpc' = "swap"]_vars
    /\ [](InLoop => 1 \notin prior)
    /\ []((gpc = "idle" /\ start.ran) => swaps = Len(dispatched) + 1)

\* C20 witness: an invocation has returned after three iterations and two
\* dispatches, the machine-check bit clear
C20_Witness ==
    /\ gpc = "idle" /\ start.ran /\ 1 \notin prior
    /\ swaps = 3 /\ Len(dispatched) = 2

====
